---- MODULE Spec2Model ----
(***************************************************************************)
(* Outbox relay (services/publisher/main.py) and ingestion worker          *)
(* (services/worker/app.py) of the mortgage-event pipeline, with the       *)
(* outbox table, the SQS queue and the S3 bucket they act on; the write    *)
(* path (services/api/main.py); and the ML pipeline state machine          *)
(* (infra/stacks/analytics_stack.py).                                      *)
(***************************************************************************)
EXTENDS Integers, Sequences, FiniteSets, TLC

VARIABLES
    now,        \* database / wall clock, in seconds
    today,      \* calendar date of the wall clock (day number)
    outbox,     \* committed rows of outbox_events
    lock,       \* row-level lock owner (FOR UPDATE), "none" when unlocked
    relay,      \* per relay instance: position in main() and its open transaction
    faults,     \* environment events injected so far: database faults and crashes
                \* of a relay, visibility timeouts that ran out on the queue,
                \* midnight passing on the worker's clock
    orphan,     \* per row: "orphaned" once a cycle that sent it crashed before its
                \* commit, "resent" once it was sent again after that
    msgs,       \* the SQS queue: every message slot with its delivery state
    s3,         \* the bucket: set of [key, body]
    worker,     \* per worker instance: position in main() and its received batch
    iamRole,    \* TRUE when the worker runs under the stack's WorkerTaskRole
    payments,   \* committed rows of payments: the set of their payment_id
    api,        \* per request of the write path: position in create_payment
    ml          \* the execution of the ML pipeline state machine and its two jobs

vars == <<now, today, outbox, lock, relay, faults, orphan, msgs, s3, worker, iamRole,
          payments, api, ml>>

----------------------------------------------------------------------------
(* Bounds of the model *)

MaxTime == 5
MaxFaults == 2
MaxMsgs == 2
MaxDeliveries == 2
MaxRows == 12
MaxSkipped == 2
MaxAttempts == 3

Rows == {"e1", "e2"}
Relays == {"r1", "r2"}
Workers == {"w1", "w2"}
Calls == {"c1", "c2"}     \* requests the write path serves at a time
PaymentIds == {"p1", "p2"}
Deployed == {"w1"}        \* desired_count=1: the worker task the service runs
MsgIds == 1..MaxMsgs

(* Program constants *)

BatchLimit == 10          \* LIMIT 10
Backoff == 5              \* seconds
Unset == -1               \* published_at IS NULL
ReceiveMax == 5           \* MaxNumberOfMessages
VisibilityTimeout == 60   \* seconds
MaxReceiveCount == 5      \* redrive policy of PaymentsQueue
WaitSeconds == 30
TimeoutSeconds == 7200
RAW_PREFIX == "raw"
QUAR_PREFIX == "quarantine"
Day1 == "2026-01-19"      \* the wall-clock date at the start
Day2 == "2026-01-20"      \* the date after midnight

----------------------------------------------------------------------------
(* Helpers *)

Max(a, b) == IF a >= b THEN a ELSE b

Range(s) == {s[i] : i \in 1..Len(s)}

\* a table large enough for LIMIT 10 to cut a poll short: rows e1 .. eMaxRows
PollRows == {"e" \o ToString(i) : i \in 1..MaxRows}

RowAge == [e \in PollRows |-> CHOOSE i \in 0..(MaxRows - 1) : e = "e" \o ToString(i + 1)]

\* created_at is immutable and is the poll's ordering key: e1 is the oldest
\* row, e2 the next.
CreatedAt(e) == RowAge[e]

(* JSON values: a tag and the text of the value *)
None == [t |-> "none", v |-> ""]
Str(x) == [t |-> "str", v |-> x]
Num(x) == [t |-> "num", v |-> x]

\* dict.get(k)
Get(d, k) == IF k \in DOMAIN d THEN d[k] ELSE None

EmptyDict == [k \in {} |-> None]

(* Message bodies: what json.loads makes of the text *)
Obj(ev) == [json |-> "object", event |-> ev]
NotObj == [json |-> "array", event |-> EmptyDict]
Garbage == [json |-> "garbage", event |-> EmptyDict]

\* p.model_dump(mode="json") of the payment with payment_id pid
PaymentPayload(pid) ==
    Obj([payment_id |-> Str(pid),
         amount |-> Num("42.5"),
         ts |-> Str("2026-01-18T05:00:00Z")])

\* the payload column: the event PaymentIn.model_dump(mode="json") produced
Payload(e) == PaymentPayload(IF e = "e1" THEN "p1" ELSE "p2")

NewRow == [status |-> "pending", attempts |-> 0, available_at |-> 0, published_at |-> Unset]

NoTx == [pc |-> "idle", rows |-> <<>>, i |-> 0, now |-> 0,
         upd |-> [e \in DOMAIN outbox |-> "none"], aborted |-> FALSE,
         sentOk |-> {}, sendFailed |-> {}]

NoCall == [pc |-> "idle", pid |-> "", pay |-> FALSE, evt |-> FALSE, result |-> "none"]

\* the state machine before StartExecution; no job exists
NoExecution == [state |-> "NotStarted", processingDesc |-> "none", transformDesc |-> "none",
                processing |-> "none", transform |-> "none", elapsed |-> 0]

NoMsg == [state |-> "absent", body |-> Garbage, producer |-> "none",
          rc |-> 0, visAt |-> 0]

----------------------------------------------------------------------------
(* The outbox table as the relay's poll query sees it *)

\* the poll query without SKIP LOCKED / FOR UPDATE
ClaimableIgnoringLocks(e) ==
    /\ outbox[e].status = "pending"
    /\ outbox[e].available_at <= now

\* the poll query without its status filter
ClaimableAnyStatus(e) ==
    /\ outbox[e].available_at <= now
    /\ lock[e] = "none"

\* WHERE status = 'pending' AND available_at <= now() ... FOR UPDATE SKIP LOCKED
Claimable(e) ==
    /\ outbox[e].status = "pending"
    /\ outbox[e].available_at <= now
    /\ lock[e] = "none"

\* ORDER BY created_at: the i-th row is the one with i - 1 older rows in S
\* (created_at values are distinct)
OrderByCreatedAt(S) ==
    IF S = {} THEN <<>>
    ELSE [i \in 1..Cardinality(S) |->
             CHOOSE x \in S :
                 Cardinality({y \in S : CreatedAt(y) < CreatedAt(x)}) = i - 1]

\* a poll without LIMIT
LimitNone(s, n) == s

Limit(s, n) == SubSeq(s, 1, IF Len(s) <= n THEN Len(s) ELSE n)

SelectForUpdate == Limit(OrderByCreatedAt({e \in DOMAIN outbox : Claimable(e)}), BatchLimit)

\* the attempts column is counted up to MaxAttempts and kept there: the
\* relay writes the column and never reads it
Counted(n) == IF n < MaxAttempts THEN n ELSE MaxAttempts

\* a mark-published update that leaves published_at as it was
MarkPublishedNoTime(row, t) == [row EXCEPT !.status = "published"]

\* a mark-published update that leaves the status pending
MarkPublishedStillPending(row, t) == [row EXCEPT !.published_at = t]

\* SET status='published', published_at=now()
MarkPublished(row, t) == [row EXCEPT !.status = "published", !.published_at = t]

\* the failure update without the backoff interval
BackoffUpdateNoDelay(row, t) == [row EXCEPT !.attempts = Counted(@ + 1), !.available_at = t]

\* SET attempts = attempts + 1, available_at = now() + 5 seconds
BackoffUpdate(row, t) ==
    [row EXCEPT !.attempts = Counted(@ + 1), !.available_at = t + Backoff]

\* a commit that persists none of the transaction's updates
CommittedNothing(r) == outbox

\* the table once the transaction of relay r is committed
Committed(r) ==
    [e \in DOMAIN outbox |->
        CASE relay[r].upd[e] = "published" -> MarkPublished(outbox[e], relay[r].now)
          [] relay[r].upd[e] = "backoff"   -> BackoffUpdate(outbox[e], relay[r].now)
          [] OTHER                         -> outbox[e]]

\* a rollback that keeps the updates (statements run in autocommit)
RolledBackDirty(r) == Committed(r)

\* the table once the transaction of relay r is rolled back
RolledBack(r) == outbox

\* locks that outlive the session that took them
ReleasedNone(r) == lock

\* the locks once the transaction of relay r has ended
Released(r) == [e \in DOMAIN lock |-> IF lock[e] = r THEN "none" ELSE lock[e]]

Cur(r) == relay[r].rows[relay[r].i]

InTx(r) == relay[r].pc \in {"send", "mark", "backoff", "commit", "rollback"}

\* a loop that leaves the batch after the row it just handled
NextRowBreak(t) == [t EXCEPT !.pc = "commit"]

\* the for loop over the claimed rows: next row, or db.commit() after the last
NextRow(t) ==
    IF t.i < Len(t.rows) THEN [t EXCEPT !.i = @ + 1, !.pc = "send"]
    ELSE [t EXCEPT !.pc = "commit"]

FreeSlots == {m \in MsgIds : msgs[m].state = "absent"}

\* a failed UPDATE that leaves the transaction usable
AfterMarkFailureUsable(t) == [t EXCEPT !.pc = "backoff"]

\* the UPDATE raised: the except block runs next, in a transaction the server
\* has aborted
AfterMarkFailure(t) == [t EXCEPT !.pc = "backoff", !.aborted = TRUE]

----------------------------------------------------------------------------
(* Outbox relay: one action per statement of the poll cycle *)

\* db.execute(SELECT ... FOR UPDATE SKIP LOCKED).fetchall()
RelayPoll(r) ==
    /\ relay[r].pc = "idle"
    /\ \/ LET rows == SelectForUpdate IN
            /\ relay' = [relay EXCEPT ![r] =
                   [NoTx EXCEPT !.pc = IF rows = <<>> THEN "commit" ELSE "send",
                                !.rows = rows,
                                !.i = IF rows = <<>> THEN 0 ELSE 1,
                                !.now = now]]
            /\ lock' = [e \in DOMAIN lock |-> IF e \in Range(rows) THEN r ELSE lock[e]]
            /\ UNCHANGED faults
       \/ /\ faults < MaxFaults
          /\ faults' = faults + 1
          /\ relay' = [relay EXCEPT ![r] = [NoTx EXCEPT !.pc = "rollback", !.now = now,
                                                        !.aborted = TRUE]]
          /\ UNCHANGED lock
    /\ UNCHANGED <<now, today, outbox, orphan, msgs, s3, worker, iamRole, payments, api, ml>>

\* sqs.send_message(MessageBody=json.dumps(payload), producer=publisher)
RelaySend(r) ==
    /\ relay[r].pc = "send"
    /\ \/ \E m \in FreeSlots :
            /\ m = CHOOSE x \in FreeSlots : \A y \in FreeSlots : x <= y
            /\ msgs' = [msgs EXCEPT ![m] =
                   [state |-> "visible", body |-> Payload(Cur(r)),
                    producer |-> "publisher", rc |-> 0, visAt |-> 0]]
            /\ relay' = [relay EXCEPT ![r].pc = "mark",
                                      ![r].sentOk = @ \cup {Cur(r)}]
       \/ /\ relay' = [relay EXCEPT ![r].pc = "backoff",
                                    ![r].sendFailed = @ \cup {Cur(r)}]
          /\ UNCHANGED msgs
    /\ orphan' = [orphan EXCEPT ![Cur(r)] = IF @ = "orphaned" THEN "resent" ELSE @]
    /\ UNCHANGED <<now, today, outbox, lock, faults, s3, worker, iamRole, payments, api, ml>>

\* UPDATE outbox_events SET status='published', published_at=now() WHERE id=:id
RelayMarkPublished(r) ==
    /\ relay[r].pc = "mark"
    /\ \/ /\ relay' = [relay EXCEPT ![r] =
                 NextRow([relay[r] EXCEPT !.upd[Cur(r)] = "published"])]
          /\ UNCHANGED faults
       \/ /\ faults < MaxFaults
          /\ faults' = faults + 1
          /\ relay' = [relay EXCEPT ![r] = AfterMarkFailure(relay[r])]
    /\ UNCHANGED <<now, today, outbox, lock, orphan, msgs, s3, worker, iamRole, payments, api, ml>>

\* except Exception: UPDATE outbox_events SET attempts = attempts + 1, available_at = ...
RelayBackoff(r) ==
    /\ relay[r].pc = "backoff"
    /\ \/ /\ ~relay[r].aborted
          /\ relay' = [relay EXCEPT ![r] =
                 NextRow([relay[r] EXCEPT !.upd[Cur(r)] = "backoff"])]
          /\ UNCHANGED faults
       \/ /\ relay[r].aborted
          /\ relay' = [relay EXCEPT ![r].pc = "rollback"]
          /\ UNCHANGED faults
       \/ /\ ~relay[r].aborted
          /\ faults < MaxFaults
          /\ faults' = faults + 1
          /\ relay' = [relay EXCEPT ![r].pc = "rollback", ![r].aborted = TRUE]
    /\ UNCHANGED <<now, today, outbox, lock, orphan, msgs, s3, worker, iamRole, payments, api, ml>>

\* db.commit() (then db.close(), and time.sleep(1.0) after an empty poll)
RelayCommit(r) ==
    /\ relay[r].pc = "commit"
    /\ \/ /\ outbox' = Committed(r)
          /\ lock' = Released(r)
          /\ relay' = [relay EXCEPT ![r] = NoTx]
          /\ UNCHANGED faults
       \/ /\ faults < MaxFaults
          /\ faults' = faults + 1
          /\ relay' = [relay EXCEPT ![r].pc = "rollback", ![r].aborted = TRUE]
          /\ UNCHANGED <<outbox, lock>>
    /\ UNCHANGED <<now, today, orphan, msgs, s3, worker, iamRole, payments, api, ml>>

\* except Exception: db.rollback(); time.sleep(2.0); finally: db.close()
RelayRollback(r) ==
    /\ relay[r].pc = "rollback"
    /\ outbox' = RolledBack(r)
    /\ lock' = Released(r)
    /\ relay' = [relay EXCEPT ![r] = NoTx]
    /\ UNCHANGED <<now, today, faults, orphan, msgs, s3, worker, iamRole, payments, api, ml>>

\* the process dies: the server aborts its transaction and drops its locks.
\* One instance always survives.
RelayCrash(r) ==
    /\ relay[r].pc # "crashed"
    /\ faults < MaxFaults
    /\ \E q \in Relays \ {r} : relay[q].pc # "crashed"
    /\ faults' = faults + 1
    /\ lock' = Released(r)
    /\ orphan' = [e \in DOMAIN orphan |-> IF e \in relay[r].sentOk THEN "orphaned" ELSE orphan[e]]
    /\ relay' = [relay EXCEPT ![r] = [NoTx EXCEPT !.pc = "crashed"]]
    /\ UNCHANGED <<now, today, outbox, msgs, s3, worker, iamRole, payments, api, ml>>

\* a second passes
Tick ==
    /\ now < MaxTime
    /\ now' = now + 1
    /\ UNCHANGED <<today, outbox, lock, relay, faults, orphan, msgs, s3, worker, iamRole, payments, api, ml>>

----------------------------------------------------------------------------
(* Ingestion worker: pure functions *)

\* the date part of the text, with no conversion to UTC
FromIsoDatePart(x) ==
    CASE x = "2026-01-18T05:00:00Z"      -> "2026-01-18"
      [] x = "2026-01-18T23:30:00-05:00" -> "2026-01-18"
      [] x = "2026-01-19T01:00:00+03:00" -> "2026-01-19"
      [] OTHER                           -> "invalid"

\* datetime.fromisoformat(ts, Z read as +00:00).astimezone(utc).strftime("%Y-%m-%d"),
\* "invalid" where fromisoformat raises
FromIso(x) ==
    CASE x = "2026-01-18T05:00:00Z"      -> "2026-01-18"
      [] x = "2026-01-18T23:30:00-05:00" -> "2026-01-19"
      [] x = "2026-01-19T01:00:00+03:00" -> "2026-01-18"
      [] OTHER                           -> "invalid"

HasParseableTs(ev) == Get(ev, "ts").t = "str" /\ FromIso(Get(ev, "ts").v) # "invalid"

\* a partition date taken from the wall clock only
ParseDtIngestOnly(ev, wall) == wall

\* parse_dt(event): the UTC date of event['ts'], else the wall-clock date
ParseDt(ev, wall) == IF HasParseableTs(ev) THEN FromIso(Get(ev, "ts").v) ELSE wall

\* json.loads and the two checks of the try block: "ok" or the ValueError raised
Validate(body) ==
    CASE body.json = "garbage" -> "Expecting value"
      [] body.json # "object"  -> "event is not an object"
      [] Get(body.event, "payment_id").t # "str" \/ Get(body.event, "payment_id").v = ""
                               -> "missing/invalid payment_id"
      [] OTHER                 -> "ok"

\* enriched = dict(event); enriched["_meta"] = {ingested_at, producer}
Enriched(ev, prod, t) ==
    [k \in DOMAIN ev \cup {"_meta"} |->
        IF k = "_meta"
        THEN [t |-> "dict", v |-> "", ingested_at |-> t, producer |-> prod]
        ELSE ev[k]]

\* a raw key with the wall-clock date in place of the payment's partition date
RawKeyByIngestDate(ev, wall) ==
    [prefix |-> RAW_PREFIX, dir |-> "payments", dt |-> wall,
     name |-> Get(ev, "payment_id").v]

\* f"{RAW_PREFIX}/payments/dt={dt}/payment_id={payment_id}.json"
RawKey(ev, wall) ==
    [prefix |-> RAW_PREFIX, dir |-> "payments", dt |-> ParseDt(ev, wall),
     name |-> Get(ev, "payment_id").v]

\* the text of a raw key
KeyText(key) ==
    key.prefix \o "/" \o key.dir \o "/dt=" \o key.dt \o "/payment_id=" \o key.name \o ".json"

\* get_producer(attrs): the StringValue of the producer attribute, or None;
\* attrs is "none" when the message carries no producer attribute
GetProducer(attrs) == IF attrs = "none" THEN None ELSE Str(attrs)

\* f"{QUAR_PREFIX}/dt={dt_ingest}/{int(time.time())}.json"
QuarKey(wall, t) ==
    [prefix |-> QUAR_PREFIX, dir |-> "", dt |-> wall, name |-> ToString(t)]

\* the document put under the quarantine key
QuarDoc(err, m, t) ==
    [error |-> err, body |-> msgs[m].body, attributes |-> msgs[m].producer,
     received_at |-> t]

\* a put that keeps the object already stored under the key
PutAppend(key, doc) == s3 \cup {[key |-> key, body |-> doc]}

\* s3.put_object: create or overwrite
Put(key, doc) == {o \in s3 : o.key # key} \cup {[key |-> key, body |-> doc]}

\* the worker task role allows s3:PutObject on raw/* only
PutPermitted(key) == ~iamRole \/ key.prefix = "raw"

\* how a put_object call can end
PutOutcomes(key) ==
    IF PutPermitted(key) THEN {"ok", "client_error", "error"} ELSE {"client_error"}

IdleWorker == [pc |-> "idle", batch |-> <<>>, i |-> 0, put |-> "none", err |-> "none"]

CurMsg(w) == worker[w].batch[worker[w].i]

CurBody(w) == msgs[CurMsg(w)].body

\* the queue delivers a message that is visible and below the redrive threshold
Receivable(m) == msgs[m].state = "visible" /\ msgs[m].rc < MaxReceiveCount

\* the batches a receive_message call can return: distinct receivable messages
Batches ==
    {b \in UNION {[1..n -> MsgIds] : n \in 1..(IF MaxMsgs <= ReceiveMax THEN MaxMsgs ELSE ReceiveMax)} :
        /\ \A j \in DOMAIN b : Receivable(b[j])
        /\ \A j, k \in DOMAIN b : j # k => b[j] # b[k]}

\* for m in msgs: the next message of the batch, or back to receive_message
NextMsg(t) ==
    IF t.i < Len(t.batch)
    THEN [t EXCEPT !.i = @ + 1, !.pc = "handle", !.put = "none"]
    ELSE IdleWorker

\* a failure handler that leaves the batch
AfterFailureBreak(t, kind) == IdleWorker

\* a failure handler that goes on to delete the message
AfterFailureDelete(t, kind) == [t EXCEPT !.pc = "delete", !.err = kind]

\* except ...: print(...); continue
AfterFailure(t, kind) == NextMsg([t EXCEPT !.err = kind])

\* a quarantine failure that falls through to the delete
AfterQuarantineFailureDelete(t) == [t EXCEPT !.pc = "qdelete", !.err = "quar"]

\* except Exception as qe: print(...); continue
AfterQuarantineFailure(t) == AfterFailure(t, "quar")

----------------------------------------------------------------------------
(* Ingestion worker: one action per call of the loop *)

\* receive_message returns a batch: its messages are in flight for 60 s
ReceivesBatch(w) ==
    \E b \in Batches :
        /\ msgs' = [m \in MsgIds |->
               IF m \in Range(b)
               THEN [msgs[m] EXCEPT !.state = "inflight", !.rc = @ + 1,
                                    !.visAt = now + VisibilityTimeout]
               ELSE msgs[m]]
        /\ worker' = [worker EXCEPT ![w] = [IdleWorker EXCEPT !.pc = "handle",
                                                             !.batch = b, !.i = 1]]

\* sqs.receive_message(MaxNumberOfMessages=5, VisibilityTimeout=60); the call
\* is outside every try block, so an error it raises ends main()
WorkerReceive(w) ==
    /\ worker[w].pc = "idle"
    /\ \/ ReceivesBatch(w)
       \/ /\ worker' = [worker EXCEPT ![w] = [IdleWorker EXCEPT !.pc = "crashed",
                                                                !.err = "receive"]]
          /\ UNCHANGED msgs
    /\ UNCHANGED <<now, today, outbox, lock, relay, faults, orphan, s3, iamRole, payments, api, ml>>

\* a valid event: put_json(BUCKET, key, enriched)
WorkerPutRaw(w) ==
    /\ worker[w].pc = "handle"
    /\ Validate(CurBody(w)) = "ok"
    /\ LET ev  == CurBody(w).event
           key == RawKey(ev, today)
       IN  \E out \in PutOutcomes(key) :
              \/ /\ out = "ok"
                 /\ s3' = Put(key, Enriched(ev, GetProducer(msgs[CurMsg(w)].producer), now))
                 /\ worker' = [worker EXCEPT ![w].pc = "delete", ![w].put = "raw",
                                             ![w].err = "none"]
              \/ /\ out = "client_error"
                 /\ worker' = [worker EXCEPT ![w] = AfterFailure(worker[w], "client")]
                 /\ UNCHANGED s3
              \/ /\ out = "error"
                 /\ worker' = [worker EXCEPT ![w] = AfterFailure(worker[w], "other")]
                 /\ UNCHANGED s3
    /\ UNCHANGED <<now, today, outbox, lock, relay, faults, orphan, msgs, iamRole, payments, api, ml>>

\* except ValueError: put_json(BUCKET, qkey, {error, body, attributes, received_at})
WorkerQuarantine(w) ==
    /\ worker[w].pc = "handle"
    /\ Validate(CurBody(w)) # "ok"
    /\ LET key == QuarKey(today, now)
       IN  \E out \in PutOutcomes(key) :
              \/ /\ out = "ok"
                 /\ s3' = Put(key, QuarDoc(Validate(CurBody(w)), CurMsg(w), now))
                 /\ worker' = [worker EXCEPT ![w].pc = "qdelete",
                                             ![w].put = "quarantine",
                                             ![w].err = "none"]
              \/ /\ out # "ok"
                 /\ worker' = [worker EXCEPT ![w] = AfterQuarantineFailure(worker[w])]
                 /\ UNCHANGED s3
    /\ UNCHANGED <<now, today, outbox, lock, relay, faults, orphan, msgs, iamRole, payments, api, ml>>

\* sqs.delete_message: the message leaves the queue
Deleted(m) ==
    [msgs EXCEPT ![m].state = IF @ \in {"inflight", "visible"} THEN "deleted" ELSE @]

\* sqs.delete_message(ReceiptHandle=receipt) after the raw write; an error is
\* caught by except ClientError / except Exception
WorkerDelete(w) ==
    /\ worker[w].pc = "delete"
    /\ \/ /\ msgs' = Deleted(CurMsg(w))
          /\ worker' = [worker EXCEPT ![w] = NextMsg([worker[w] EXCEPT !.err = "none"])]
       \/ /\ worker' = [worker EXCEPT ![w] = AfterFailure(worker[w], "delete")]
          /\ UNCHANGED msgs
    /\ UNCHANGED <<now, today, outbox, lock, relay, faults, orphan, s3, iamRole, payments, api, ml>>

\* sqs.delete_message(ReceiptHandle=receipt) in the except ValueError block; an
\* error raised there is caught by nothing and ends main()
WorkerDeleteQuarantined(w) ==
    /\ worker[w].pc = "qdelete"
    /\ \/ /\ msgs' = Deleted(CurMsg(w))
          /\ worker' = [worker EXCEPT ![w] = NextMsg([worker[w] EXCEPT !.err = "none"])]
       \/ /\ worker' = [worker EXCEPT ![w] = [IdleWorker EXCEPT !.pc = "crashed",
                                                                !.err = "delete"]]
          /\ UNCHANGED msgs
    /\ UNCHANGED <<now, today, outbox, lock, relay, faults, orphan, s3, iamRole, payments, api, ml>>

\* the service starts a new task in place of the one that exited
WorkerRestart(w) ==
    /\ worker[w].pc = "crashed"
    /\ worker' = [worker EXCEPT ![w] = IdleWorker]
    /\ UNCHANGED <<now, today, outbox, lock, relay, faults, orphan, msgs, s3, iamRole, payments, api, ml>>

WorkerStep(w) ==
    \/ WorkerReceive(w)
    \/ WorkerPutRaw(w)
    \/ WorkerQuarantine(w)
    \/ WorkerDelete(w)
    \/ WorkerDeleteQuarantined(w)
    \/ WorkerRestart(w)

----------------------------------------------------------------------------
(* The queue and the clock *)

\* the visibility timeout of an in-flight message runs out: time passes up to
\* that moment and the message is visible again
VisibilityExpires(m) ==
    /\ msgs[m].state = "inflight"
    /\ faults < MaxFaults
    /\ faults' = faults + 1
    /\ now' = Max(now, msgs[m].visAt)
    /\ msgs' = [msgs EXCEPT ![m].state = "visible"]
    /\ UNCHANGED <<today, outbox, lock, relay, orphan, s3, worker, iamRole, payments, api, ml>>

\* the same, as the queue does it however often a message is left in flight
VisibilityTimeoutPasses(m) ==
    /\ msgs[m].state = "inflight"
    /\ now' = Max(now, msgs[m].visAt)
    /\ msgs' = [msgs EXCEPT ![m].state = "visible"]
    /\ UNCHANGED <<today, outbox, lock, relay, faults, orphan, s3, worker, iamRole, payments, api, ml>>

\* a queue without redrive policy
RedriveNever(m) == FALSE

\* the redrive policy: a message received MaxReceiveCount times goes to the DLQ
Redrive(m) ==
    /\ msgs[m].state = "visible"
    /\ msgs[m].rc >= MaxReceiveCount
    /\ msgs' = [msgs EXCEPT ![m].state = "dlq"]
    /\ UNCHANGED <<now, today, outbox, lock, relay, faults, orphan, s3, worker, iamRole, payments, api, ml>>

\* a second passes on the worker's clock, the one before midnight
Midnight ==
    /\ today = Day1
    /\ faults < MaxFaults
    /\ faults' = faults + 1
    /\ today' = Day2
    /\ now' = now + 1
    /\ UNCHANGED <<outbox, lock, relay, orphan, msgs, s3, worker, iamRole, payments, api, ml>>

----------------------------------------------------------------------------
(* Specifications *)

InitClock == now = 0 /\ today = Day1

\* no execution of the ML pipeline has been started
InitNoExecution == ml = NoExecution

InitRelays ==
    /\ outbox = [e \in Rows |-> NewRow]
    /\ lock = [e \in Rows |-> "none"]
    /\ relay = [r \in Relays |-> NoTx]
    /\ faults = 0
    /\ orphan = [e \in Rows |-> "no"]

InitNoWorkers ==
    /\ s3 = {}
    /\ worker = [w \in Workers |-> IdleWorker]
    /\ iamRole = TRUE

\* the write path is idle and has committed the payments of the outbox rows
InitPaid ==
    /\ payments = PaymentIds
    /\ api = [c \in Calls |-> NoCall]

InitRelay ==
    /\ InitClock
    /\ InitRelays
    /\ msgs = [m \in MsgIds |-> NoMsg]
    /\ InitNoWorkers
    /\ InitPaid
    /\ InitNoExecution

RelayStep(r) ==
    \/ RelayPoll(r)
    \/ RelaySend(r)
    \/ RelayMarkPublished(r)
    \/ RelayBackoff(r)
    \/ RelayCommit(r)
    \/ RelayRollback(r)

NextRelay ==
    \/ \E r \in Relays : RelayStep(r)
    \/ \E r \in Relays : RelayCrash(r)
    \/ Tick

SpecRelay == InitRelay /\ [][NextRelay]_vars

(* Polls over a table of MaxRows rows *)
PublishedRow == [status |-> "published", attempts |-> 0, available_at |-> 0, published_at |-> 0]

\* a row whose send failed in a cycle that polled at time 0
LateRow == BackoffUpdate(NewRow, 0)

Few(S) == {X \in SUBSET S : Cardinality(X) <= MaxSkipped}

InitPoll ==
    /\ InitClock
    /\ \E pub \in Few(PollRows), late \in Few(PollRows) :
          /\ pub \cap late = {}
          /\ Cardinality(pub \cup late) <= MaxSkipped
          /\ outbox = [e \in PollRows |->
                          IF e \in pub THEN PublishedRow
                          ELSE IF e \in late THEN LateRow ELSE NewRow]
    /\ lock = [e \in PollRows |-> "none"]
    /\ relay = [r \in Relays |-> NoTx]
    /\ faults = 0
    /\ orphan = [e \in Rows |-> "no"]
    /\ msgs = [m \in MsgIds |-> NoMsg]
    /\ InitNoWorkers
    /\ InitPaid
    /\ InitNoExecution

NextPoll ==
    \/ \E r \in Relays : RelayPoll(r)
    \/ Tick

SpecPoll == InitPoll /\ [][NextPoll]_vars

(* One relay instance over a table whose ten oldest rows cannot be sent.
   The clock has no upper end here: time is kept relative to the present,
   which stays at now = Backoff, and a passing second moves every stored
   time one second into the past. Times more than Backoff in the past
   are kept at 0: now() - t >= Backoff is all the poll query and the
   backoff update can tell about them. *)
Running == {"r1"}

\* rows whose send_message call raises every time (as many as one batch holds)
SendFailsPermanently == {e \in PollRows : RowAge[e] < BatchLimit}

Earlier(t) == IF t = Unset THEN Unset ELSE Max(t - 1, 0)

\* a second passes
TimePasses ==
    /\ outbox' = [e \in DOMAIN outbox |->
                     [outbox[e] EXCEPT !.available_at = Earlier(@),
                                       !.published_at = Earlier(@)]]
    /\ relay' = [r \in Relays |-> [relay[r] EXCEPT !.now = Earlier(@)]]
    /\ UNCHANGED <<now, today, lock, faults, orphan, msgs, s3, worker, iamRole, payments, api, ml>>

\* send_message raises for the rows that cannot be sent and returns for the others
RelaySendFixed(r) ==
    /\ RelaySend(r)
    /\ relay'[r].pc = "backoff" <=> Cur(r) \in SendFailsPermanently

\* the database is healthy: no statement and no commit fails
InitStarve ==
    /\ now = Backoff /\ today = Day1
    /\ outbox = [e \in PollRows |-> NewRow]
    /\ lock = [e \in PollRows |-> "none"]
    /\ relay = [r \in Relays |-> NoTx]
    /\ faults = MaxFaults
    /\ orphan = [e \in PollRows |-> "no"]
    /\ msgs = [m \in MsgIds |-> NoMsg]
    /\ InitNoWorkers
    /\ InitPaid
    /\ InitNoExecution

StarveStep(r) ==
    \/ RelayPoll(r)
    \/ RelaySendFixed(r)
    \/ RelayMarkPublished(r)
    \/ RelayBackoff(r)
    \/ RelayCommit(r)

NextStarve ==
    \/ \E r \in Running : StarveStep(r)
    \/ TimePasses

SpecStarve == InitStarve /\ [][NextStarve]_vars

\* the relay keeps running its loop and time keeps passing
FairSpecStarve ==
    SpecStarve /\ (\A r \in Running : WF_vars(StarveStep(r))) /\ WF_vars(TimePasses)

\* every live relay instance keeps running its loop
FairSpecRelay == SpecRelay /\ \A r \in Relays : WF_vars(RelayStep(r))

(* Events the worker is fed *)
EvValid   == [payment_id |-> Str("p-42"), amount |-> Num("10"),
              ts |-> Str("2026-01-18T05:00:00Z")]
EvNoTs    == [payment_id |-> Str("p-42"), amount |-> Num("10")]
EvNoPid   == [amount |-> Num("10")]
EvEmptyPid == [payment_id |-> Str(""), amount |-> Num("10")]
EvNumPid  == [payment_id |-> Num("42"), amount |-> Num("10")]

WorkerBodies ==
    {Obj(EvValid), Obj(EvNoTs), Obj(EvNoPid), Obj(EvEmptyPid), Obj(EvNumPid),
     NotObj, Garbage}

SiblingBodies == {Obj(EvValid), Obj(EvNoPid)}

\* the slots of the queue that hold a message when the worker starts
WorkerSlots == {1, 2}

\* a message the queue holds; earlier deliveries of it failed, so that
\* MaxDeliveries receives are left before the redrive policy applies
Sent(body) == [state |-> "visible", body |-> body, producer |-> "publisher",
               rc |-> MaxReceiveCount - MaxDeliveries, visAt |-> 0]

InitWorker ==
    /\ InitClock
    /\ InitRelays
    /\ \E b1 \in WorkerBodies, b2 \in SiblingBodies :
          msgs = [m \in MsgIds |->
                    IF m = 1 THEN Sent(b1) ELSE IF m \in WorkerSlots THEN Sent(b2) ELSE NoMsg]
    /\ s3 = {}
    /\ worker = [w \in Workers |-> IdleWorker]
    /\ iamRole \in BOOLEAN
    /\ InitPaid
    /\ InitNoExecution

NextWorker ==
    \/ \E w \in Deployed : WorkerStep(w)
    \/ \E m \in MsgIds : VisibilityExpires(m)
    \/ \E m \in MsgIds : Redrive(m)
    \/ Midnight

SpecWorker == InitWorker /\ [][NextWorker]_vars

(* The queue with its redrive policy, and the worker as its only consumer *)
InitQueue ==
    /\ InitClock
    /\ InitRelays
    /\ \E b1 \in {Obj(EvValid), Obj(EvNoPid)} :
          msgs = [m \in MsgIds |->
                    IF m = 1 THEN Sent(b1) ELSE IF m \in WorkerSlots THEN Sent(Obj(EvNoPid)) ELSE NoMsg]
    /\ s3 = {}
    /\ worker = [w \in Workers |-> IdleWorker]
    /\ iamRole \in BOOLEAN
    /\ InitPaid
    /\ InitNoExecution

NextQueue ==
    \/ \E w \in Deployed : WorkerStep(w)
    \/ \E m \in MsgIds : VisibilityTimeoutPasses(m)
    \/ \E m \in MsgIds : Redrive(m)

SpecQueue == InitQueue /\ [][NextQueue]_vars

\* the worker task keeps running (the service restarts it), receive_message
\* succeeds again and again, time passes, and the queue applies its policy
FairSpecQueue ==
    /\ SpecQueue
    /\ \A w \in Deployed : WF_vars(WorkerStep(w)) /\ SF_vars(WorkerReceive(w) /\ ReceivesBatch(w))
    /\ \A m \in MsgIds : WF_vars(VisibilityTimeoutPasses(m)) /\ WF_vars(Redrive(m))

(* Events of every shape, handled one at a time *)
EvOffset  == [payment_id |-> Str("p-42"), amount |-> Num("10"),
              ts |-> Str("2026-01-18T23:30:00-05:00")]
EvOffsetBack == [payment_id |-> Str("p-42"), amount |-> Num("10"),
              ts |-> Str("2026-01-19T01:00:00+03:00")]
EvBadTs   == [payment_id |-> Str("p-42"), amount |-> Num("10"), ts |-> Str("yesterday")]
EvNumTs   == [payment_id |-> Str("p-42"), amount |-> Num("10"), ts |-> Num("1768712400")]
EvExtra   == [payment_id |-> Str("p-7"), amount |-> Num("10"), note |-> Str("x"),
              ts |-> Str("2026-01-18T05:00:00Z")]
EvMeta    == [payment_id |-> Str("p-42"), amount |-> Num("10"),
              _meta |-> [t |-> "dict", v |-> "origin"]]

IngestBodies ==
    {Obj(EvValid), Obj(EvNoTs), Obj(EvOffset), Obj(EvOffsetBack), Obj(EvBadTs),
     Obj(EvNumTs), Obj(EvExtra), Obj(EvMeta), Obj(EvNoPid), NotObj}

InitIngest ==
    /\ InitClock
    /\ InitRelays
    /\ \E b \in IngestBodies, prod \in {"publisher", "none"} :
          msgs = [m \in MsgIds |->
                    IF m = 1 THEN [Sent(b) EXCEPT !.producer = prod] ELSE NoMsg]
    /\ s3 = {}
    /\ worker = [w \in Workers |-> IdleWorker]
    /\ iamRole = FALSE
    /\ InitPaid
    /\ InitNoExecution

SpecIngest == InitIngest /\ [][NextWorker]_vars

(* Two workers and two deliveries of one event: the relay sent it twice *)
DuplicateBodies == {Obj(EvValid), Obj(EvNoTs), Obj(EvMeta), Obj(EvNoPid)}

InitPair ==
    /\ InitClock
    /\ InitRelays
    /\ \E b \in DuplicateBodies :
          msgs = [m \in MsgIds |-> IF m \in WorkerSlots THEN Sent(b) ELSE NoMsg]
    /\ s3 = {}
    /\ worker = [w \in Workers |-> IdleWorker]
    /\ iamRole = FALSE
    /\ InitPaid
    /\ InitNoExecution

NextPair ==
    \/ \E w \in Workers : WorkerStep(w)
    \/ \E m \in MsgIds : VisibilityExpires(m)
    \/ \E m \in MsgIds : Redrive(m)
    \/ Midnight

SpecPair == InitPair /\ [][NextPair]_vars

----------------------------------------------------------------------------
(* Write path: POST /payments, one action per statement of its transaction *)

\* the outbox row create_payment adds: aggregate_id and payload of the
\* payment, status pending, server defaults for the rest
ApiRow(pid, t) ==
    [status |-> "pending", attempts |-> 0, available_at |-> t, published_at |-> Unset,
     aggregate_type |-> "payment", aggregate_id |-> pid, event_type |-> "PaymentCreated",
     payload |-> PaymentPayload(pid)]

\* default=uuid.uuid4: an id no row has
NewId == "e" \o ToString(Cardinality(DOMAIN outbox) + 1)

\* a rollback after statements that ran in autocommit
PaymentsRolledBackDirty(c) ==
    IF api[c].pay THEN payments \cup {api[c].pid} ELSE payments

\* db.rollback(): the INSERTs of the request are discarded
PaymentsRolledBack(c) == payments

\* db.commit(): the flushed payment and outbox rows become visible together
PaymentsCommitted(c) == payments \cup {api[c].pid}

OutboxCommitted(c) ==
    [e \in DOMAIN outbox \cup {NewId} |->
        IF e = NewId THEN ApiRow(api[c].pid, now) ELSE outbox[e]]

OtherVarsApi == <<today, lock, relay, orphan, msgs, s3, worker, iamRole, ml>>

\* create_payment(p): db.add(pay); db.add(evt)
ApiRequest(c, pid) ==
    /\ api[c].pc = "idle"
    /\ api' = [api EXCEPT ![c] = [NoCall EXCEPT !.pc = "insert_payment", !.pid = pid]]
    /\ UNCHANGED <<now, faults, outbox, payments>>
    /\ UNCHANGED OtherVarsApi

\* db.commit() flushes INSERT INTO payments: it waits while another open
\* transaction holds the same key, raises IntegrityError when the key is
\* committed, and can fail for any other reason
ApiInsertPayment(c) ==
    /\ api[c].pc = "insert_payment"
    /\ \A d \in Calls \ {c} : ~(api[d].pay /\ api[d].pid = api[c].pid)
    /\ \/ /\ api[c].pid \in payments
          /\ api' = [api EXCEPT ![c].pc = "rollback", ![c].result = "409"]
          /\ UNCHANGED faults
       \/ /\ api[c].pid \notin payments
          /\ api' = [api EXCEPT ![c].pc = "insert_event", ![c].pay = TRUE]
          /\ UNCHANGED faults
       \/ /\ faults < MaxFaults
          /\ faults' = faults + 1
          /\ api' = [api EXCEPT ![c].pc = "rollback", ![c].result = "500"]
    /\ UNCHANGED <<now, outbox, payments>>
    /\ UNCHANGED OtherVarsApi

\* db.commit() flushes INSERT INTO outbox_events
ApiInsertEvent(c) ==
    /\ api[c].pc = "insert_event"
    /\ \/ /\ api' = [api EXCEPT ![c].pc = "commit", ![c].evt = TRUE]
          /\ UNCHANGED faults
       \/ /\ faults < MaxFaults
          /\ faults' = faults + 1
          /\ api' = [api EXCEPT ![c].pc = "rollback", ![c].result = "500"]
    /\ UNCHANGED <<now, outbox, payments>>
    /\ UNCHANGED OtherVarsApi

\* db.commit() commits; return PaymentOut(status="accepted")
ApiCommit(c) ==
    /\ api[c].pc = "commit"
    /\ \/ /\ payments' = PaymentsCommitted(c)
          /\ outbox' = OutboxCommitted(c)
          /\ api' = [api EXCEPT ![c] = [NoCall EXCEPT !.pid = api[c].pid,
                                                      !.result = "accepted"]]
          /\ UNCHANGED faults
       \/ /\ faults < MaxFaults
          /\ faults' = faults + 1
          /\ api' = [api EXCEPT ![c].pc = "rollback", ![c].result = "500"]
          /\ UNCHANGED <<outbox, payments>>
    /\ UNCHANGED now
    /\ UNCHANGED OtherVarsApi

\* except IntegrityError / except Exception: db.rollback(); raise HTTPException
ApiRollback(c) ==
    /\ api[c].pc = "rollback"
    /\ payments' = PaymentsRolledBack(c)
    /\ api' = [api EXCEPT ![c] = [NoCall EXCEPT !.pid = api[c].pid,
                                                !.result = api[c].result]]
    /\ UNCHANGED <<now, faults, outbox>>
    /\ UNCHANGED OtherVarsApi

\* a second passes while the write path runs
TickApi ==
    /\ now < MaxTime
    /\ now' = now + 1
    /\ UNCHANGED <<faults, outbox, payments, api, ml>>
    /\ UNCHANGED OtherVarsApi

ApiStep(c) ==
    \/ \E pid \in PaymentIds : ApiRequest(c, pid)
    \/ ApiInsertPayment(c)
    \/ ApiInsertEvent(c)
    \/ ApiCommit(c)
    \/ ApiRollback(c)

\* both tables are empty when the service starts
InitApi ==
    /\ InitClock
    /\ outbox = [e \in {} |-> NewRow]
    /\ lock = [e \in {} |-> "none"]
    /\ relay = [r \in Relays |-> NoTx]
    /\ faults = 0
    /\ orphan = [e \in Rows |-> "no"]
    /\ msgs = [m \in MsgIds |-> NoMsg]
    /\ InitNoWorkers
    /\ payments = {}
    /\ api = [c \in Calls |-> NoCall]
    /\ InitNoExecution

NextApi ==
    \/ \E c \in Calls : ApiStep(c)
    \/ TickApi

SpecApi == InitApi /\ [][NextApi]_vars

(* The relay and the worker together: outbox rows on their way to the bucket *)
\* the oldest row is pending, and a cycle that ended without commit may have
\* sent it already; the other rows were published and ingested before
InitPipeline ==
    /\ InitClock
    /\ outbox = [e \in Rows |-> IF e = "e1" THEN NewRow ELSE PublishedRow]
    /\ lock = [e \in Rows |-> "none"]
    /\ relay = [r \in Relays |-> NoTx]
    /\ faults = 0
    /\ orphan = [e \in Rows |-> "no"]
    /\ \E first \in {NoMsg, Sent(Payload("e1"))} :
          msgs = [m \in MsgIds |-> IF m = 1 THEN first ELSE NoMsg]
    /\ s3 = {[key |-> RawKey(Payload(e).event, today),
              body |-> Enriched(Payload(e).event, Str("publisher"), 0)] : e \in Rows \ {"e1"}}
    /\ worker = [w \in Workers |-> IdleWorker]
    /\ iamRole = TRUE
    /\ InitPaid
    /\ InitNoExecution

\* the worker loop as far as the relay's messages take it: their bodies are
\* payloads the write path validated, so the except ValueError block is not
\* entered
IngestStep(w) ==
    \/ WorkerReceive(w)
    \/ WorkerPutRaw(w)
    \/ WorkerDelete(w)
    \/ WorkerRestart(w)

NextPipeline ==
    \/ \E r \in Running : RelayStep(r)
    \/ \E r \in Running : RelayCrash(r)
    \/ \E w \in Deployed : IngestStep(w)
    \/ \E m \in MsgIds : VisibilityExpires(m)
    \/ \E m \in MsgIds : Redrive(m)

SpecPipeline == InitPipeline /\ [][NextPipeline]_vars

----------------------------------------------------------------------------
(* The ML pipeline state machine (MortgageMlPipeline): one action per state *)

OtherVarsMl == <<now, today, outbox, lock, relay, faults, orphan, msgs, s3, worker, iamRole,
                 payments, api>>

TaskStates == {"StartProcessingJob", "DescribeProcessingJob",
               "StartTransformJob", "DescribeTransformJob"}

WaitStates == {"WaitProcessing30s", "WaitTransform30s"}

\* states in which an execution has ended: the Fail and Succeed states of the
\* definition, and the ends the service gives an execution whose task raised
\* or whose timeout ran out
EndStates == {"ProcessingFailed", "TransformFailed", "PipelineSucceeded",
              "ExecutionFailed", "ExecutionTimedOut"}

\* a choice that treats every status other than Completed as still running
ProcessingDoneNoFail(status) ==
    IF status = "Completed" THEN "StartTransformJob" ELSE "WaitProcessing30s"

\* the Choice state ProcessingDone?
ProcessingDoneChoice(status) ==
    IF status = "Completed" THEN "StartTransformJob"
    ELSE IF status \in {"Failed", "Stopped"} THEN "ProcessingFailed"
    ELSE "WaitProcessing30s"

\* the Choice state TransformDone?
TransformDoneChoice(status) ==
    IF status = "Completed" THEN "PipelineSucceeded"
    ELSE IF status \in {"Failed", "Stopped"} THEN "TransformFailed"
    ELSE "WaitTransform30s"

\* a task state whose API call raised: no Retry or Catch is defined, the
\* execution fails
TaskFailed == [ml EXCEPT !.state = "ExecutionFailed"]

\* createProcessingJob, then DescribeProcessingJob
StartProcessingJob ==
    /\ ml.state = "StartProcessingJob"
    /\ \/ ml' = [ml EXCEPT !.state = "DescribeProcessingJob", !.processing = "InProgress"]
       \/ ml' = TaskFailed
    /\ UNCHANGED OtherVarsMl

\* describeProcessingJob with result_path $.processingDesc, then ProcessingDone?
DescribeProcessingJob ==
    /\ ml.state = "DescribeProcessingJob"
    /\ \/ ml' = [ml EXCEPT !.state = "ProcessingDone?", !.processingDesc = ml.processing]
       \/ ml' = TaskFailed
    /\ UNCHANGED OtherVarsMl

ProcessingDone ==
    /\ ml.state = "ProcessingDone?"
    /\ ml' = [ml EXCEPT !.state = ProcessingDoneChoice(ml.processingDesc)]
    /\ UNCHANGED OtherVarsMl

\* Wait 30 seconds, then DescribeProcessingJob
WaitProcessing30s ==
    /\ ml.state = "WaitProcessing30s"
    /\ ml.elapsed + WaitSeconds <= TimeoutSeconds
    /\ ml' = [ml EXCEPT !.state = "DescribeProcessingJob", !.elapsed = @ + WaitSeconds]
    /\ UNCHANGED OtherVarsMl

\* createTransformJob, then DescribeTransformJob
StartTransformJob ==
    /\ ml.state = "StartTransformJob"
    /\ \/ ml' = [ml EXCEPT !.state = "DescribeTransformJob", !.transform = "InProgress"]
       \/ ml' = TaskFailed
    /\ UNCHANGED OtherVarsMl

\* describeTransformJob with result_path $.transformDesc, then TransformDone?
DescribeTransformJob ==
    /\ ml.state = "DescribeTransformJob"
    /\ \/ ml' = [ml EXCEPT !.state = "TransformDone?", !.transformDesc = ml.transform]
       \/ ml' = TaskFailed
    /\ UNCHANGED OtherVarsMl

TransformDone ==
    /\ ml.state = "TransformDone?"
    /\ ml' = [ml EXCEPT !.state = TransformDoneChoice(ml.transformDesc)]
    /\ UNCHANGED OtherVarsMl

\* Wait 30 seconds, then DescribeTransformJob
WaitTransform30s ==
    /\ ml.state = "WaitTransform30s"
    /\ ml.elapsed + WaitSeconds <= TimeoutSeconds
    /\ ml' = [ml EXCEPT !.state = "DescribeTransformJob", !.elapsed = @ + WaitSeconds]
    /\ UNCHANGED OtherVarsMl

\* timeout=Duration.hours(2): the execution is ended once it has run that
\* long, in whatever task or wait it is; the time an execution has run is
\* counted by its waits
ExecutionTimeout ==
    /\ ml.state \in TaskStates \cup WaitStates
    /\ ml.elapsed + WaitSeconds > TimeoutSeconds
    /\ ml' = [ml EXCEPT !.state = "ExecutionTimedOut"]
    /\ UNCHANGED OtherVarsMl

\* SageMaker runs the processing job: a running job completes, fails or is
\* being stopped; a job being stopped ends as Stopped
ProcessingJobRuns ==
    /\ \/ /\ ml.processing = "InProgress"
          /\ \E st \in {"Completed", "Failed", "Stopping"} : ml' = [ml EXCEPT !.processing = st]
       \/ /\ ml.processing = "Stopping"
          /\ ml' = [ml EXCEPT !.processing = "Stopped"]
    /\ UNCHANGED OtherVarsMl

\* the same for the transform job
TransformJobRuns ==
    /\ \/ /\ ml.transform = "InProgress"
          /\ \E st \in {"Completed", "Failed", "Stopping"} : ml' = [ml EXCEPT !.transform = st]
       \/ /\ ml.transform = "Stopping"
          /\ ml' = [ml EXCEPT !.transform = "Stopped"]
    /\ UNCHANGED OtherVarsMl

\* definition = start_processing.next(describe_processing): an execution at
\* its first state
InitMl ==
    /\ InitClock
    /\ InitRelays
    /\ msgs = [m \in MsgIds |-> NoMsg]
    /\ InitNoWorkers
    /\ payments = PaymentIds
    /\ api = [c \in Calls |-> NoCall]
    /\ ml = [NoExecution EXCEPT !.state = "StartProcessingJob"]

MlStep ==
    \/ StartProcessingJob
    \/ DescribeProcessingJob
    \/ ProcessingDone
    \/ WaitProcessing30s
    \/ StartTransformJob
    \/ DescribeTransformJob
    \/ TransformDone
    \/ WaitTransform30s
    \/ ExecutionTimeout

NextMl ==
    \/ MlStep
    \/ ProcessingJobRuns
    \/ TransformJobRuns

SpecMl == InitMl /\ [][NextMl]_vars

\* the state machine service keeps running the execution
FairSpecMl == SpecMl /\ WF_vars(MlStep)

----------------------------------------------------------------------------
(* Properties of the relay *)

Orphans == {e \in Rows : orphan[e] = "orphaned"}

Attempted(r) == relay[r].sentOk \cup relay[r].sendFailed

\* relay r's cycle ends in this step by a successful db.commit()
CommitsNow(r) == relay[r].pc = "commit" /\ relay'[r].pc = "idle"

\* relay r's cycle ends in this step by db.rollback()
RollsBackNow(r) == relay[r].pc = "rollback" /\ relay'[r].pc = "idle"

\* relay r's SELECT returns in this step
PollsNow(r) == relay[r].pc = "idle" /\ relay'[r].pc \in {"send", "commit"}

\* C1: no row is claimed by two poll cycles whose transactions overlap: every
\* row of an in-flight cycle is locked by that cycle alone, so the claimed
\* sets of two in-flight cycles are disjoint, and a poll never returns a row
\* that another in-flight cycle holds.
C1_MutualExclusion ==
    /\ [](\A r \in Relays : InTx(r) =>
            \A e \in Range(relay[r].rows) : lock[e] = r)
    /\ [](\A r, q \in Relays : (r # q /\ InTx(r) /\ InTx(q)) =>
            Range(relay[r].rows) \cap Range(relay[q].rows) = {})
    /\ [][\A r \in Relays : PollsNow(r) =>
            \A e \in Range(relay'[r].rows) : lock[e] = "none"]_vars

\* a poll came back empty although a row was pending and due: another
\* in-flight cycle held it
C1_Witness ==
    \E r, q \in Relays :
        /\ r # q
        /\ InTx(r)
        /\ relay[q].pc = "commit" /\ relay[q].rows = <<>>
        /\ relay[q].now >= relay[r].now
        /\ \E e \in Range(relay[r].rows) :
              /\ outbox[e].status = "pending"
              /\ outbox[e].available_at <= relay[q].now

C7_Original ==
    /\ [][\A r \in Relays : CommitsNow(r) =>
            \A e \in relay[r].sendFailed :
                outbox'[e] = [outbox[e] EXCEPT !.attempts = @ + 1,
                                               !.available_at = relay[r].now + Backoff]]_vars
    /\ [](\A r \in Relays : relay[r].pc \in {"send", "mark", "backoff"} =>
            outbox[Cur(r)].available_at <= relay[r].now)
    /\ [][\A r \in Relays : PollsNow(r) =>
            \A e \in Rows : Claimable(e) => e \in Range(relay'[r].rows)]_vars
    /\ [][\A r \in Relays : (InTx(r) /\ relay'[r].pc = "idle") =>
            \A e \in relay[r].sentOk :
                outbox[e].attempts > 0 => outbox'[e].status = "published"]_vars

\* C7 (amended): a failed send, once its cycle commits, leaves the row pending
\* with attempts + 1 and available_at = poll time + 5; no relay sends a row
\* before its available_at; a poll claims a due, unlocked row that is among
\* the 10 oldest such rows; and a re-sent row becomes published when the send
\* and the mark-published update succeed and the cycle commits.
C7_RetryAfterBackoff ==
    /\ [][\A r \in Relays : CommitsNow(r) =>
            \A e \in relay[r].sendFailed :
                outbox'[e] = [outbox[e] EXCEPT !.attempts = @ + 1,
                                               !.available_at = relay[r].now + Backoff]]_vars
    /\ [](\A r \in Relays : relay[r].pc \in {"send", "mark", "backoff"} =>
            /\ outbox[Cur(r)].available_at <= relay[r].now
            /\ relay[r].now <= now)
    /\ [][\A r \in Relays : PollsNow(r) =>
            \A e \in Rows :
                (/\ Claimable(e)
                 /\ Cardinality({o \in Rows : Claimable(o) /\ CreatedAt(o) < CreatedAt(e)})
                        < BatchLimit)
                => e \in Range(relay'[r].rows)]_vars
    /\ [][\A r \in Relays : CommitsNow(r) =>
            \A e \in relay[r].sentOk :
                relay[r].upd[e] = "published" => outbox'[e].status = "published"]_vars

\* the retry scenario: a row that failed once has been re-sent and published
C7_Witness ==
    \E e \in Rows :
        /\ outbox[e].status = "published"
        /\ outbox[e].attempts = 1
        /\ outbox[e].published_at >= outbox[e].available_at
        /\ outbox[e].available_at = Backoff

\* C8 as stated: whatever fails while a row is handled, every claimed row has
\* been attempted when the cycle ends and each row's outcome is committed.
C8_Original ==
    [][\A r \in Relays : (InTx(r) /\ relay'[r].pc = "idle") =>
          /\ Range(relay[r].rows) \subseteq Attempted(r)
          /\ outbox' = Committed(r)]_vars

\* C8 (amended): a failed send does not abort the batch: the relay records
\* the backoff and goes on to the next claimed row, so a cycle that reaches
\* its commit has attempted every claimed row, and a successful commit
\* commits each row's own outcome; a failing database statement aborts the
\* batch.
C8_SendFailureIsolated ==
    /\ [][\A r \in Relays :
            (relay[r].pc = "send" /\ relay'[r] # relay[r] /\ relay'[r].pc # "crashed") =>
                /\ relay'[r].pc \in {"mark", "backoff"}
                /\ relay'[r].rows = relay[r].rows
                /\ relay'[r].i = relay[r].i]_vars
    /\ [](\A r \in Relays : relay[r].pc = "commit" =>
            Range(relay[r].rows) \subseteq Attempted(r))
    /\ [][\A r \in Relays : CommitsNow(r) =>
            \A e \in Range(relay[r].rows) :
                outbox'[e] = IF e \in relay[r].sentOk
                             THEN MarkPublished(outbox[e], relay[r].now)
                             ELSE BackoffUpdate(outbox[e], relay[r].now)]_vars
    /\ [][\A r \in Relays :
            (relay[r].pc \in {"mark", "backoff"} /\ relay'[r] # relay[r] /\ relay'[r].aborted) =>
                relay'[r].pc \in {"backoff", "rollback", "crashed"}]_vars

\* a batch about to commit in which the first row's send failed and a later
\* row's send succeeded
C8_Witness ==
    \E r \in Relays :
        /\ relay[r].pc = "commit"
        /\ Len(relay[r].rows) = 2
        /\ relay[r].rows[1] \in relay[r].sendFailed
        /\ relay[r].rows[2] \in relay[r].sentOk

\* C9: the table changes only by a successful commit, which applies the
\* cycle's updates and releases its locks in one step; a rollback leaves the
\* table as it was, releases the locks and leaves every claimed row
\* claimable, sent or not.
C9_AtomicCommitOrRollback ==
    /\ [][outbox' # outbox =>
            \E r \in Relays : CommitsNow(r) /\ lock' = Released(r)]_vars
    /\ [](\A r \in Relays : InTx(r) =>
            \A e \in Range(relay[r].rows) :
                /\ outbox[e].status = "pending"
                /\ outbox[e].published_at = Unset
                /\ outbox[e].available_at <= relay[r].now)
    /\ [][\A r \in Relays : RollsBackNow(r) =>
            /\ outbox' = outbox
            /\ \A e \in Range(relay[r].rows) : lock'[e] = "none" /\ Claimable(e)']_vars

\* a cycle is about to roll back after it sent a row and marked it published
C9_Witness ==
    \E r \in Relays, e \in Rows :
        /\ relay[r].pc = "rollback"
        /\ e \in relay[r].sentOk
        /\ relay[r].upd[e] = "published"

C11_PublishedAtOnce ==
    /\ [](\A e \in Rows : (outbox[e].published_at # Unset) <=> (outbox[e].status = "published"))
    /\ [][\A e \in Rows :
            outbox'[e].published_at # outbox[e].published_at =>
                /\ outbox[e].published_at = Unset
                /\ outbox'[e].status = "published"]_vars
    /\ [][\A e \in Rows :
            (outbox[e].status # "published" /\ outbox'[e].status = "published") =>
                \E r \in Relays :
                    /\ CommitsNow(r)
                    /\ e \in relay[r].sentOk
                    /\ outbox'[e].published_at = relay[r].now]_vars

\* one row is published with published_at set while the other, whose send
\* failed, is pending with published_at unset
C11_Witness ==
    \E e, o \in Rows :
        /\ outbox[e].status = "published" /\ outbox[e].published_at # Unset
        /\ outbox[o].status = "pending" /\ outbox[o].published_at = Unset
        /\ outbox[o].attempts > 0

\* C12: attempts never decreases; it changes only by the commit of a cycle in
\* which the send of that row failed, and then by exactly one; a cycle whose
\* send of the row succeeded never changes it, also when the mark-published
\* update raised.
C12_AttemptsCountFailedSends ==
    /\ [][\A e \in Rows : outbox'[e].attempts >= outbox[e].attempts]_vars
    /\ [][\A e \in Rows :
            outbox'[e].attempts # outbox[e].attempts =>
                /\ outbox'[e].attempts = outbox[e].attempts + 1
                /\ \E r \in Relays : CommitsNow(r) /\ e \in relay[r].sendFailed]_vars
    /\ [][\A r \in Relays : (InTx(r) /\ relay'[r].pc \in {"idle", "crashed"}) =>
            \A e \in relay[r].sentOk : outbox'[e].attempts = outbox[e].attempts]_vars
    /\ [](\A r \in Relays : \A e \in relay[r].sentOk : relay[r].upd[e] # "backoff")

\* a row with one failed send committed is sent again successfully, the
\* mark-published update raises and the cycle ends in a rollback
C12_Witness ==
    \E r \in Relays, e \in Rows :
        /\ relay[r].pc = "rollback"
        /\ e \in relay[r].sentOk
        /\ relay[r].upd[e] = "none"
        /\ outbox[e].attempts = 1

\* C17: the rows a poll claims for sending were, at the poll, pending, due
\* (available_at <= poll time) and unlocked; they are at most 10, as many as
\* there are eligible rows up to 10, in created_at order, and no eligible
\* row older than a claimed one is left out.
C17_PollClaimsOldestEligible ==
    [][\A r \in Relays : PollsNow(r) =>
          LET rows == relay'[r].rows
              S    == Range(rows)
              E    == {e \in DOMAIN outbox : /\ outbox[e].status = "pending"
                                             /\ outbox[e].available_at <= now
                                             /\ lock[e] = "none"}
          IN  /\ S \subseteq E
              /\ relay'[r].now = now
              /\ Len(rows) <= 10
              /\ Cardinality(S) = Len(rows)
              /\ Len(rows) = IF Cardinality(E) <= 10 THEN Cardinality(E) ELSE 10
              /\ \A i, j \in 1..Len(rows) : i < j => CreatedAt(rows[i]) < CreatedAt(rows[j])
              /\ \A e \in S, o \in E : CreatedAt(o) < CreatedAt(e) => o \in S
              /\ \A e \in S : lock'[e] = r]_vars

\* one poll claimed 10 rows, skipping an older published row and leaving a
\* newer eligible row, which a second poll then claimed
C17_Witness ==
    \E r, q \in Relays :
        /\ r # q
        /\ Len(relay[r].rows) = 10
        /\ relay[q].pc = "send" /\ relay[q].rows # <<>>
        /\ \E o \in DOMAIN outbox :
              /\ outbox[o].status = "published"
              /\ CreatedAt(o) < CreatedAt(relay[r].rows[10])
        /\ \A e \in Range(relay[q].rows) : CreatedAt(e) > CreatedAt(relay[r].rows[10])

\* the outbox events of payment pid
EventsOf(pid) == {e \in DOMAIN outbox : outbox[e].aggregate_id = pid}

\* request c returns in this step
ReturnsNow(c) == api[c].pc \in {"commit", "rollback"} /\ api'[c].pc = "idle"

\* C18: in every state each committed payment has exactly one outbox event
\* with its payment_id as aggregate_id, pending when it was added, and each
\* outbox event has its payment; a request that returns 409 or 500 changes
\* neither table, and one that is accepted adds one payment and one event.
C18_PaymentWithEvent ==
    /\ [](\A pid \in payments : Cardinality(EventsOf(pid)) = 1)
    /\ [](\A e \in DOMAIN outbox : outbox[e].aggregate_id \in payments)
    /\ [][\A c \in Calls :
            (ReturnsNow(c) /\ api'[c].result \in {"409", "500"}) =>
                payments' = payments /\ outbox' = outbox]_vars
    /\ [][\A c \in Calls :
            (ReturnsNow(c) /\ api'[c].result = "accepted") =>
                /\ payments' = payments \cup {api[c].pid}
                /\ api[c].pid \notin payments
                /\ \E e \in DOMAIN outbox' \ DOMAIN outbox :
                      /\ DOMAIN outbox' = DOMAIN outbox \cup {e}
                      /\ outbox'[e].aggregate_id = api[c].pid
                      /\ outbox'[e].status = "pending"
                /\ \A e \in DOMAIN outbox : outbox'[e] = outbox[e]]_vars
    /\ [][(payments' # payments \/ outbox' # outbox) =>
            \E c \in Calls : ReturnsNow(c) /\ api'[c].result = "accepted"]_vars

\* one request was accepted, a second one for the same payment_id was
\* rejected with 409 and a third one failed with 500 after its payment row
\* was flushed
C18_Witness ==
    \E c, d \in Calls :
        /\ c # d
        /\ api[c].pc = "idle" /\ api[c].result = "409"
        /\ api[c].pid \in payments
        /\ api[d].pc = "rollback" /\ api[d].result = "500" /\ api[d].pay
        /\ api[d].pid \notin payments

----------------------------------------------------------------------------
(* Properties of the worker *)

Invalid(m) == Validate(msgs[m].body) # "ok"

RawObjects == {o \in s3 : o.key.prefix = RAW_PREFIX}

QuarObjects == {o \in s3 : o.key.prefix = QUAR_PREFIX}

\* raw object o holds event ev: every field of ev, and _meta
HoldsEvent(o, ev) ==
    /\ o.key.prefix = RAW_PREFIX
    /\ DOMAIN o.body = DOMAIN ev \cup {"_meta"}
    /\ \A k \in DOMAIN ev \ {"_meta"} : o.body[k] = ev[k]

\* quarantine object o holds message m
HoldsMessage(o, m) ==
    /\ o.key.prefix = QUAR_PREFIX
    /\ o.body.body = msgs[m].body

\* worker w's put_object for its current message returns successfully in this step
PutsNow(w) == worker[w].pc = "handle" /\ worker'[w].pc \in {"delete", "qdelete"}

\* message m is deleted from the queue in this step
DeletedNow(m) == msgs[m].state # "deleted" /\ msgs'[m].state = "deleted"

\* C2: a message is deleted only by a worker that is handling that delivery
\* and whose put for it has returned successfully: at the delete after the raw
\* write the bucket holds a raw object with the event's fields under its
\* payment_id, at the delete after the quarantine write it holds a quarantine
\* object with the message's body.
C2_DeleteAfterWrite ==
    /\ [](\A w \in Workers : worker[w].pc = "delete" =>
            /\ worker[w].put = "raw"
            /\ Validate(CurBody(w)) = "ok"
            /\ \E o \in RawObjects :
                  /\ HoldsEvent(o, CurBody(w).event)
                  /\ o.key.name = Get(CurBody(w).event, "payment_id").v)
    /\ [](\A w \in Workers : worker[w].pc = "qdelete" =>
            /\ worker[w].put = "quarantine"
            /\ Invalid(CurMsg(w))
            /\ \E o \in QuarObjects : HoldsMessage(o, CurMsg(w)))
    /\ [][\A m \in MsgIds : DeletedNow(m) =>
            \E w \in Workers :
                /\ worker[w].pc \in {"delete", "qdelete"}
                /\ CurMsg(w) = m
                /\ worker[w].put # "none"]_vars

\* a valid and an invalid message have both been written and then deleted
C2_Witness ==
    \E m, n \in MsgIds :
        /\ msgs[m].state = "deleted" /\ Validate(msgs[m].body) = "ok"
        /\ msgs[n].state = "deleted" /\ Invalid(n)
        /\ RawObjects # {}
        /\ \E o \in QuarObjects : HoldsMessage(o, n)

\* C4 as stated: a raw write for an event the bucket already holds an object
\* of leaves the bucket as it is: same key, same content.
C4_Original ==
    [][\A w \in Workers :
          (/\ PutsNow(w)
           /\ Validate(CurBody(w)) = "ok"
           /\ \E o \in RawObjects : HoldsEvent(o, CurBody(w).event))
          => s3' = s3]_vars

\* C4 (amended): a raw write for an event the bucket already holds an object
\* of stores a document equal to the earlier one in every field of the event
\* and in _meta.producer, the two differing at most in _meta.ingested_at; the
\* key is the earlier key when the event's ts is parseable, and otherwise
\* the earlier key with the wall-clock date of this delivery as its dt; the
\* write replaces the object under its own key only, so the earlier object is
\* overwritten unless the date has changed.
C4_IdempotentUpToIngestTime ==
    [][\A w \in Workers :
          (PutsNow(w) /\ Validate(CurBody(w)) = "ok") =>
            LET ev == CurBody(w).event
            IN  \A o \in RawObjects : HoldsEvent(o, ev) =>
                  \E n \in s3' :
                      /\ HoldsEvent(n, ev)
                      /\ n.body["_meta"].producer = o.body["_meta"].producer
                      /\ n.body["_meta"].ingested_at = now
                      /\ n.key = [o.key EXCEPT !.dt = IF HasParseableTs(ev) THEN @ ELSE today]
                      /\ s3' = {x \in s3 : x.key # n.key} \cup {n}]_vars

\* the same event was delivered twice and the bucket holds two objects of it,
\* written at different times under different keys
C4_Witness ==
    \E o, n \in RawObjects :
        /\ o.key # n.key
        /\ \E m \in MsgIds : HoldsEvent(o, msgs[m].body.event) /\ HoldsEvent(n, msgs[m].body.event)
        /\ o.body["_meta"].ingested_at # n.body["_meta"].ingested_at

\* C5 as stated, for a worker that runs under the stack's task role: handling
\* a message that fails validation puts one quarantine object for it under
\* the quarantine prefix and the ingest date, goes on to delete the message,
\* and creates no raw object.
C5_Original ==
    [][\A w \in Workers :
          (/\ iamRole
           /\ worker[w].pc = "handle"
           /\ Invalid(CurMsg(w))
           /\ worker'[w] # worker[w])
          => /\ worker'[w].pc = "qdelete"
             /\ \E o \in QuarObjects' :
                   /\ HoldsMessage(o, CurMsg(w))
                   /\ o.key.dt = today
             /\ RawObjects' = RawObjects]_vars

\* under the task role an invalid message reached the dead-letter queue and
\* the bucket holds no quarantine object
C5_Witness ==
    /\ iamRole
    /\ \E m \in MsgIds : msgs[m].state = "dlq" /\ Invalid(m)
    /\ QuarObjects = {}

\* C6: when a put_object for a message fails (the raw write with a ClientError
\* or any other exception, or the quarantine write), that step leaves the
\* queue and the bucket as they are, so the message is not deleted and nothing
\* is quarantined, and the worker goes on to the next message of the same
\* batch, or back to receive_message after the last one.
C6_FailureLeavesMessage ==
    [][\A w \in Workers :
          (worker[w].pc = "handle" /\ worker'[w] # worker[w] /\ ~PutsNow(w)) =>
            /\ msgs' = msgs
            /\ s3' = s3
            /\ IF worker[w].i < Len(worker[w].batch)
               THEN /\ worker'[w].pc = "handle"
                    /\ worker'[w].batch = worker[w].batch
                    /\ worker'[w].i = worker[w].i + 1
               ELSE worker'[w].pc = "idle"]_vars

\* the raw write of the first message of a batch failed: the message is still
\* in flight with nothing stored, and the worker is handling the second one
C6_Witness ==
    \E w \in Workers :
        /\ worker[w].pc = "handle"
        /\ worker[w].i = 2
        /\ worker[w].err \in {"client", "other"}
        /\ msgs[worker[w].batch[1]].state = "inflight"
        /\ s3 = {}

\* C13 as stated, for the worker: no error of a queue or storage call ends
\* the worker loop.
C13_Original == \A w \in Workers : worker[w].pc # "crashed"

\* the worker process has ended on the delete_message that follows a
\* successful quarantine write; the message is still in flight
C13_Witness ==
    \E w \in Workers, m \in MsgIds :
        /\ worker[w].pc = "crashed"
        /\ worker[w].err = "delete"
        /\ msgs[m].state = "inflight"
        /\ \E o \in QuarObjects : HoldsMessage(o, m)

\* the object a successful raw put of worker w stores in this step
Stored(w) == CHOOSE n \in s3' : n.key = RawKey(CurBody(w).event, today)

\* C14 as stated: the document stored for a valid event has every field of
\* the event with its original value, and a _meta field with ingested_at and
\* the producer tag of the message attributes.
C14_Original ==
    [][\A w \in Workers :
          (PutsNow(w) /\ Validate(CurBody(w)) = "ok") =>
            LET ev == CurBody(w).event
                n  == Stored(w)
            IN  /\ \A k \in DOMAIN ev : k \in DOMAIN n.body /\ n.body[k] = ev[k]
                /\ "_meta" \in DOMAIN n.body
                /\ n.body["_meta"].ingested_at = now
                /\ n.body["_meta"].producer = GetProducer(msgs[CurMsg(w)].producer)]_vars

\* the bucket holds the document of an event that carried a _meta field, and
\* the stored _meta is not the event's
C14_Witness ==
    \E o \in RawObjects, m \in MsgIds :
        /\ msgs[m].state = "deleted"
        /\ "_meta" \in DOMAIN msgs[m].body.event
        /\ o.key.name = Get(msgs[m].body.event, "payment_id").v
        /\ o.body["_meta"] # msgs[m].body.event["_meta"]

C16_Original ==
    [][\A w \in Workers :
          (PutsNow(w) /\ Invalid(CurMsg(w))) =>
            /\ QuarObjects \subseteq QuarObjects'
            /\ Cardinality(QuarObjects') = Cardinality(QuarObjects) + 1]_vars

\* two different malformed messages were quarantined and deleted, and the
\* bucket holds the quarantine object of one of them only
C16_Witness ==
    \E m, n \in MsgIds :
        /\ msgs[m].state = "deleted" /\ Invalid(m)
        /\ msgs[n].state = "deleted" /\ Invalid(n)
        /\ msgs[m].body # msgs[n].body
        /\ \A o \in QuarObjects : ~HoldsMessage(o, m)
        /\ \E o \in QuarObjects : HoldsMessage(o, n)

\* C19: a message leaves the queue for the dead-letter queue only by the
\* queue's redrive policy, once it was received 5 times and is visible
\* again, and no step of the worker takes part in it; a message in flight
\* becomes visible again only by its visibility timeout; no message is
\* delivered more than 5 times; and every message in the queue is eventually
\* deleted or dead-lettered.
C19_DeletedOrDeadLettered ==
    /\ [][\A m \in MsgIds :
            (msgs[m].state # "dlq" /\ msgs'[m].state = "dlq") =>
                /\ msgs[m].state = "visible"
                /\ msgs[m].rc >= 5
                /\ worker' = worker]_vars
    /\ [][\A m \in MsgIds :
            (msgs[m].state = "inflight" /\ msgs'[m].state = "visible") =>
                /\ worker' = worker
                /\ now' >= msgs[m].visAt
                /\ msgs'[m].rc = msgs[m].rc]_vars
    /\ [](\A m \in MsgIds : msgs[m].rc <= 5)
    /\ \A m \in MsgIds :
          (msgs[m].state \in {"visible", "inflight"}) ~> (msgs[m].state \in {"deleted", "dlq"})

\* one message was written and deleted, the other was never acknowledged
\* and is in the dead-letter queue after its fifth delivery
C19_Witness ==
    \E m, n \in MsgIds :
        /\ msgs[m].state = "deleted"
        /\ msgs[n].state = "dlq" /\ msgs[n].rc = 5
        /\ now >= 2 * VisibilityTimeout

\* the document without the time of its ingestion
SansIngestTime(doc) == [doc EXCEPT !["_meta"].ingested_at = 0]

ObjectsOf(m) == {o \in RawObjects : HoldsEvent(o, msgs[m].body.event)}

SendsNow(r) == relay[r].pc = "send" /\ relay'[r].pc \in {"mark", "backoff"}

\* the messages in the queue that carry the payload of row e
MessagesOf(e) == {m \in MsgIds : msgs[m].state # "absent" /\ msgs[m].body = Payload(e)}

\* C22: a relay sends a row only while the row is committed as pending and
\* no other in-flight cycle has sent it; a cycle that commits after a
\* successful send of a row commits it as published; and a published row
\* stays published. Hence a row is sent again only after a failed send or
\* after a cycle that sent it ended without commit.
C22_NoSendAfterPublished ==
    /\ [][\A r \in Relays : SendsNow(r) =>
            /\ outbox[Cur(r)].status = "pending"
            /\ \A q \in Relays \ {r} : Cur(r) \notin Attempted(q)]_vars
    /\ [][\A r \in Relays : CommitsNow(r) =>
            \A e \in relay[r].sentOk : outbox'[e].status = "published"]_vars
    /\ [][\A e \in Rows :
            outbox[e].status = "published" => outbox'[e].status = "published"]_vars

\* a row was sent twice, the first time by a cycle that did not commit; it
\* is now published, and a later poll of a relay has come back without it
C22_Witness ==
    \E e \in Rows, r \in Relays :
        /\ outbox[e].status = "published"
        /\ Cardinality(MessagesOf(e)) = 2
        /\ relay[r].pc \in {"send", "commit"}
        /\ relay[r].now > outbox[e].published_at
        /\ e \notin Range(relay[r].rows)

\* the rows whose send would succeed
Sendable == PollRows \ SendFailsPermanently

Queued(e) ==
    \E m \in MsgIds : msgs[m].state \in {"visible", "inflight", "dlq"} /\ msgs[m].body = Payload(e)

\* the bucket holds a raw object of row e's event, or a quarantine object of
\* a message of row e
Materialized(e) ==
    \/ \E o \in RawObjects : HoldsEvent(o, Payload(e).event)
    \/ \E o \in QuarObjects : o.body.body = Payload(e)

----------------------------------------------------------------------------
(* Properties of the ML pipeline state machine *)

StillRunning(status) == status \notin {"Completed", "Failed", "Stopped"}

\* the order of the jobs and what ends an execution: the transform job
\* exists only after the processing job was described Completed;
\* PipelineSucceeded only after the transform job was described Completed;
\* a Failed or Stopped description takes the choice to its Fail state, with
\* no transform job after ProcessingFailed; an ended execution stays ended
\* and starts nothing
JobsInOrder ==
    /\ [](ml.transform # "none" => ml.processingDesc = "Completed")
    /\ [](ml.state = "PipelineSucceeded" => ml.transformDesc = "Completed")
    /\ [](ml.state = "ProcessingFailed" =>
            ml.processingDesc \in {"Failed", "Stopped"} /\ ml.transform = "none")
    /\ [](ml.state = "TransformFailed" => ml.transformDesc \in {"Failed", "Stopped"})
    /\ [][(ml.state = "ProcessingDone?" /\ ml.processingDesc \in {"Failed", "Stopped"}
             /\ ml'.state # ml.state) => ml'.state = "ProcessingFailed"]_vars
    /\ [][(ml.state = "TransformDone?" /\ ml.transformDesc \in {"Failed", "Stopped"}
             /\ ml'.state # ml.state) => ml'.state = "TransformFailed"]_vars
    /\ [][ml.state \in EndStates =>
            /\ ml'.state = ml.state
            /\ (ml.processing = "none") = (ml'.processing = "none")
            /\ (ml.transform = "none") = (ml'.transform = "none")]_vars

\* C25 as stated: the jobs run in order, a Failed or Stopped status ends in
\* the Fail state of its job, and any other status leads to a 30-second wait
\* followed by another describe of the same job.
C25_Original ==
    /\ JobsInOrder
    /\ (ml.state = "ProcessingDone?" /\ StillRunning(ml.processingDesc))
          ~> (ml.state = "WaitProcessing30s")
    /\ (ml.state = "WaitProcessing30s") ~> (ml.state = "DescribeProcessingJob")
    /\ (ml.state = "TransformDone?" /\ StillRunning(ml.transformDesc))
          ~> (ml.state = "WaitTransform30s")
    /\ (ml.state = "WaitTransform30s") ~> (ml.state = "DescribeTransformJob")

\* C25 (amended): the jobs run in order and a Failed or Stopped status ends
\* in the Fail state of its job; any other status takes the choice to the
\* wait state of the same job; a wait ends after 30 seconds in another
\* describe of the same job, or, when the execution has run for two hours,
\* in the timeout of the execution, and no describe follows; an API call
\* that raises fails the execution.
C25_PollUntilDoneOrTimeout ==
    /\ JobsInOrder
    /\ [][(ml.state = "ProcessingDone?" /\ StillRunning(ml.processingDesc)
             /\ ml'.state # ml.state) => ml'.state = "WaitProcessing30s"]_vars
    /\ [][(ml.state = "TransformDone?" /\ StillRunning(ml.transformDesc)
             /\ ml'.state # ml.state) => ml'.state = "WaitTransform30s"]_vars
    /\ [][(ml.state = "WaitProcessing30s" /\ ml'.state # ml.state) =>
            \/ ml'.state = "DescribeProcessingJob" /\ ml'.elapsed = ml.elapsed + WaitSeconds
            \/ ml'.state = "ExecutionTimedOut" /\ ml.elapsed + WaitSeconds > TimeoutSeconds]_vars
    /\ [][(ml.state = "WaitTransform30s" /\ ml'.state # ml.state) =>
            \/ ml'.state = "DescribeTransformJob" /\ ml'.elapsed = ml.elapsed + WaitSeconds
            \/ ml'.state = "ExecutionTimedOut" /\ ml.elapsed + WaitSeconds > TimeoutSeconds]_vars
    /\ (ml.state = "WaitProcessing30s")
          ~> (ml.state \in {"DescribeProcessingJob", "ExecutionTimedOut"})
    /\ (ml.state = "WaitTransform30s")
          ~> (ml.state \in {"DescribeTransformJob", "ExecutionTimedOut"})
    /\ [][ml'.state = "ExecutionFailed" => ml.state \in TaskStates \cup {"ExecutionFailed"}]_vars

\* the processing job was described after every wait of two hours and was
\* still running each time: the execution timed out in its last wait
C25_Witness ==
    /\ ml.state = "ExecutionTimedOut"
    /\ ml.elapsed = TimeoutSeconds
    /\ StillRunning(ml.processingDesc)
    /\ ml.processing \in {"InProgress", "Stopping"}
    /\ ml.transform = "none"

====
